---- MODULE Spec2Model ----
(***************************************************************************)
(* Website audit pipeline of Okha.ai: the browser-driven AuditEngine       *)
(* (runFullAudit, driven by processAuditBackground), the HTTP-only         *)
(* VercelAuditEngine (runQuickAudit) and the KV queues the cron handler    *)
(* drains (processAuditQueue / processEmailQueue / processRetryQueues).    *)
(*                                                                         *)
(* Units: load times are integer milliseconds (Date.now() differences);    *)
(* scores are integers; weights are hundredths; revenue multipliers are    *)
(* tenths.  A JavaScript `undefined` number is NoValue; an undefined or    *)
(* null flag is FALSE (the code only ever tests such flags for truthiness).*)
(***************************************************************************)
EXTENDS Integers, Sequences, FiniteSets, Bags, TLC

\* a numeric field that is `undefined` in the JavaScript object
NoValue == -1

Defined(x) == x # NoValue

\* JS `x < n` and `x > n`: false whenever x is undefined
Lt(x, n) == Defined(x) /\ x < n
Gt(x, n) == Defined(x) /\ x > n

Min(a, b) == IF a <= b THEN a ELSE b
Max(a, b) == IF a >= b THEN a ELSE b

\* Math.round(num / den) for num >= 0, den > 0: round half up
Round(num, den) == (2 * num + den) \div (2 * den)

Categories == {"performance", "mobile", "seo", "local", "conversion", "technical"}

(***************************************************************************)
(* Result records.  kind = "empty" is the `{}` placeholder the orchestrator*)
(* builds before the extractors run.                                       *)
(***************************************************************************)
Timing(loadTime, score) == [loadTime |-> loadTime, score |-> score]

PerfResult(kind, mobile, desktop, err) ==
    [kind |-> kind, score |-> NoValue, mobile |-> mobile, desktop |-> desktop, err |-> err]

\* `issues: {}` and the flags a result does not set: every flag reads falsy
NoMobileIssues ==
    [textTooSmall |-> FALSE, clickTargetsTooClose |-> FALSE, viewportNotSet |-> FALSE,
     contentWiderThanScreen |-> FALSE]

MobileResult(kind, score, friendly, issues, err) ==
    [kind |-> kind, score |-> score, friendly |-> friendly, issues |-> issues, err |-> err]

NoSeoIssues ==
    [missingTitle |-> FALSE, titleTooShort |-> FALSE, titleTooLong |-> FALSE,
     missingMetaDescription |-> FALSE, metaDescriptionTooShort |-> FALSE,
     metaDescriptionTooLong |-> FALSE, noH1 |-> FALSE, multipleH1 |-> FALSE,
     missingAltTags |-> NoValue, totalImages |-> NoValue]

NoSeoData == [phoneNumbers |-> FALSE, emails |-> FALSE, hasContactForm |-> FALSE]

SeoResult(kind, score, issues, data, err) ==
    [kind |-> kind, score |-> score, issues |-> issues, data |-> data, err |-> err]

ScoreResult(kind, score, err) == [kind |-> kind, score |-> score, err |-> err]

ConvResult(kind, score, phoneVisible, contactFormPresent, err) ==
    [kind |-> kind, score |-> score, phoneVisible |-> phoneVisible,
     contactFormPresent |-> contactFormPresent, err |-> err]

EmptyResults ==
    [performance |-> PerfResult("empty", Timing(NoValue, NoValue), Timing(NoValue, NoValue), FALSE),
     mobile      |-> MobileResult("empty", NoValue, FALSE, NoMobileIssues, FALSE),
     seo         |-> SeoResult("empty", NoValue, NoSeoIssues, NoSeoData, FALSE),
     local       |-> ScoreResult("empty", NoValue, FALSE),
     conversion  |-> ConvResult("empty", NoValue, FALSE, FALSE, FALSE),
     technical   |-> ScoreResult("empty", NoValue, FALSE)]

EmptyIssues == [critical |-> <<>>, high |-> <<>>, medium |-> <<>>]

\* the `results` object runFullAudit / runQuickAudit build before any extractor runs
NewResults ==
    [c \in Categories \cup {"issues"} |-> IF c = "issues" THEN EmptyIssues ELSE EmptyResults[c]]

(***************************************************************************)
(* Score functions                                                         *)
(***************************************************************************)
\* a table whose 7 second breakpoint belongs to the slower band
calculateSpeedScoreExclusive(loadTime) ==
    IF loadTime <= 2000 THEN 100
    ELSE IF loadTime <= 3000 THEN 90
    ELSE IF loadTime <= 4000 THEN 75
    ELSE IF loadTime <= 5000 THEN 60
    ELSE IF loadTime < 7000 THEN 40
    ELSE IF loadTime <= 10000 THEN 20
    ELSE 0

calculateSpeedScore(loadTime) ==
    IF loadTime <= 2000 THEN 100
    ELSE IF loadTime <= 3000 THEN 90
    ELSE IF loadTime <= 4000 THEN 75
    ELSE IF loadTime <= 5000 THEN 60
    ELSE IF loadTime <= 7000 THEN 40
    ELSE IF loadTime <= 10000 THEN 20
    ELSE 0

QuickCalculateSpeedScore(loadTime) ==
    IF loadTime <= 2000 THEN 100
    ELSE IF loadTime <= 3000 THEN 90
    ELSE IF loadTime <= 4000 THEN 75
    ELSE IF loadTime <= 5000 THEN 60
    ELSE IF loadTime <= 7000 THEN 40
    ELSE IF loadTime <= 10000 THEN 20
    ELSE 0

calculateMobileScore(issues) ==
    Max(0, 100 - (IF issues.textTooSmall THEN 30 ELSE 0)
               - (IF issues.clickTargetsTooClose THEN 25 ELSE 0)
               - (IF issues.viewportNotSet THEN 25 ELSE 0)
               - (IF issues.contentWiderThanScreen THEN 20 ELSE 0))

\* the penalties both engines share; the alt-tag penalty differs in its guard
SeoFlagPenalty(issues) ==
      (IF issues.missingTitle THEN 25 ELSE 0)
    + (IF issues.titleTooShort \/ issues.titleTooLong THEN 15 ELSE 0)
    + (IF issues.missingMetaDescription THEN 20 ELSE 0)
    + (IF issues.metaDescriptionTooShort \/ issues.metaDescriptionTooLong THEN 10 ELSE 0)
    + (IF issues.noH1 THEN 20 ELSE 0)
    + (IF issues.multipleH1 THEN 15 ELSE 0)

\* The alt-tag penalty is a fraction of totalImages, so the score is computed
\* as k times its value; the result is exact whenever totalImages divides k.
\* k * Math.min(20, missingAltTags / totalImages * 20)
AltTagPenaltyTimes(k, issues) ==
    Min(20 * k, (issues.missingAltTags * 20 * k) \div issues.totalImages)

\* the score without the Math.max(0, score) floor
FullCalculateSEOScoreTimesUnfloored(k, issues) ==
    (100 - SeoFlagPenalty(issues)) * k
        - (IF issues.missingAltTags > 0 THEN AltTagPenaltyTimes(k, issues) ELSE 0)

FullCalculateSEOScoreTimes(k, issues) ==
    Max(0, (100 - SeoFlagPenalty(issues)) * k
               - (IF issues.missingAltTags > 0 THEN AltTagPenaltyTimes(k, issues) ELSE 0))

QuickCalculateSEOScoreTimes(k, issues) ==
    Max(0, (100 - SeoFlagPenalty(issues)) * k
               - (IF issues.missingAltTags > 0 /\ issues.totalImages > 0
                  THEN AltTagPenaltyTimes(k, issues) ELSE 0))

\* the image counts of the audited pages keep the score integral
AltTagPenalty(issues) == AltTagPenaltyTimes(1, issues)

FullCalculateSEOScore(issues) == FullCalculateSEOScoreTimes(1, issues)

QuickCalculateSEOScore(issues) == QuickCalculateSEOScoreTimes(1, issues)

FullCalculateTechnicalScore(data) ==
      (IF data.ssl THEN 25 ELSE 0) + (IF data.canonical THEN 15 ELSE 0)
    + (IF data.sitemap THEN 20 ELSE 0) + (IF data.robots THEN 15 ELSE 0)
    + (IF data.gzip THEN 10 ELSE 0) + (IF data.googleAnalytics THEN 15 ELSE 0)

QuickCalculateTechnicalScore(data) ==
      (IF data.ssl THEN 40 ELSE 0) + (IF data.statusCode = 200 THEN 30 ELSE 0)
    + (IF data.gzip THEN 15 ELSE 0)
    + (IF data.googleAnalytics \/ data.googleTagManager THEN 15 ELSE 0)

(***************************************************************************)
(* Score Aggregator                                                        *)
(***************************************************************************)
weights ==
    [performance |-> 30, mobile |-> 20, seo |-> 20, local |-> 15,
     conversion |-> 10, technical |-> 5]

RECURSIVE SumOver(_, _)
SumOver(S, f) ==
    IF S = {} THEN 0
    ELSE LET k == CHOOSE x \in S : TRUE IN f[k] + SumOver(S \ {k}, f)

\* the score each `if` of AuditEngine.calculateHealthScore reads
FullScoreOf(r, key) == IF key = "performance" THEN r.performance.mobile.score ELSE r[key].score

FullCalculateHealthScore(r) ==
    LET present     == {k \in Categories : Defined(FullScoreOf(r, k))}
        totalScore  == SumOver(present, [k \in Categories |-> FullScoreOf(r, k) * weights[k]])
        totalWeight == SumOver(present, weights)
    IN  IF totalWeight > 0 THEN Round(totalScore, totalWeight) ELSE 0

\* auditResults[key]?.score for every key, performance included
QuickScoreOf(r, key) == r[key].score

\* an aggregator that answers 100 when no category carries a score
QuickCalculateHealthScoreDefault100(r) ==
    LET present     == {k \in Categories : Defined(QuickScoreOf(r, k))}
        totalScore  == SumOver(present, [k \in Categories |-> QuickScoreOf(r, k) * weights[k]])
        totalWeight == SumOver(present, weights)
    IN  IF totalWeight > 0 THEN Round(totalScore, totalWeight) ELSE 100

QuickCalculateHealthScore(r) ==
    LET present     == {k \in Categories : Defined(QuickScoreOf(r, k))}
        totalScore  == SumOver(present, [k \in Categories |-> QuickScoreOf(r, k) * weights[k]])
        totalWeight == SumOver(present, weights)
    IN  IF totalWeight > 0 THEN Round(totalScore, totalWeight) ELSE 0

(***************************************************************************)
(* Revenue Projector                                                       *)
(***************************************************************************)
BusinessTypes == {"home-services", "retail", "florist"}

KnownTypes ==
    {"restaurant", "home-services", "healthcare", "automotive", "retail", "professional-services"}

baseProjections ==
    [t \in KnownTypes |->
        CASE t = "restaurant"            -> [min |-> 2000, max |-> 5000]
          [] t = "home-services"         -> [min |-> 3000, max |-> 8000]
          [] t = "healthcare"            -> [min |-> 5000, max |-> 15000]
          [] t = "automotive"            -> [min |-> 2500, max |-> 6000]
          [] t = "retail"                -> [min |-> 1500, max |-> 4000]
          [] t = "professional-services" -> [min |-> 3000, max |-> 10000]]

BaseOf(businessType) ==
    IF businessType \in KnownTypes THEN baseProjections[businessType] ELSE baseProjections["retail"]

LocationDependent == {"restaurant", "home-services", "healthcare", "automotive"}

Projection(base, multiplier) ==
    [min |-> Round(base.min * multiplier, 10), max |-> Round(base.max * multiplier, 10)]

FullMultiplier(r, businessType) ==
    10 + (IF Gt(r.performance.mobile.loadTime, 5000) THEN 3 ELSE 0)
       + (IF Gt(r.performance.mobile.loadTime, 8000) THEN 5 ELSE 0)
       + (IF Lt(r.mobile.score, 50) THEN 4 ELSE 0)
       + (IF Lt(r.seo.score, 60) THEN 3 ELSE 0)
       + (IF ~r.conversion.phoneVisible THEN 4 ELSE 0)
       + (IF ~r.conversion.contactFormPresent THEN 2 ELSE 0)
       + (IF businessType \in LocationDependent /\ Lt(r.local.score, 50) THEN 5 ELSE 0)

FullCalculateRevenueProjection(r, businessType) ==
    Projection(BaseOf(businessType), FullMultiplier(r, businessType))

QuickMultiplier(r) ==
    10 + (IF Gt(r.performance.mobile.loadTime, 5000) THEN 3 ELSE 0)
       + (IF Lt(r.mobile.score, 50) THEN 4 ELSE 0)
       + (IF Lt(r.seo.score, 60) THEN 3 ELSE 0)
       + (IF ~r.conversion.phoneVisible THEN 4 ELSE 0)
       + (IF Lt(r.local.score, 50) THEN 5 ELSE 0)

QuickCalculateRevenueProjection(r, businessType) ==
    Projection(BaseOf(businessType), QuickMultiplier(r))

(***************************************************************************)
(* Issue Classifier: each rule pushes one issue, named by its title        *)
(***************************************************************************)
PushIf(list, cond, title) == IF cond THEN Append(list, title) ELSE list

SlowCritical(r)  == Gt(r.performance.mobile.loadTime, 8000)
PhoneHidden(r)   == ~r.conversion.phoneVisible
MobileBad(r)     == Lt(r.mobile.score, 40)
SeoBasics(r)     == r.seo.issues.missingTitle \/ r.seo.issues.missingMetaDescription
SlowHigh(r)      == Gt(r.performance.mobile.loadTime, 5000) /\ r.performance.mobile.loadTime <= 8000
LocalPoor(r)     == Lt(r.local.score, 50)
NoForm(r)        == ~r.conversion.contactFormPresent
AltMissing(r)    == r.seo.issues.missingAltTags > 0

\* a classifier that evaluates the rules of each tier in the opposite order
FullCategorizeIssuesReordered(r, issues) ==
    [critical |-> PushIf(PushIf(PushIf(issues.critical,
                      MobileBad(r), "Mobile Website Unusable"),
                      PhoneHidden(r), "Phone Number Not Visible"),
                      SlowCritical(r), "Extremely Slow Mobile Loading"),
     high     |-> PushIf(PushIf(PushIf(issues.high,
                      LocalPoor(r), "Poor Local SEO Setup"),
                      SlowHigh(r), "Slow Mobile Loading"),
                      SeoBasics(r), "Missing SEO Basics"),
     medium   |-> PushIf(PushIf(issues.medium,
                      AltMissing(r), "Missing Image Alt Tags"),
                      NoForm(r), "No Contact Form")]

FullCategorizeIssues(r, issues) ==
    [critical |-> PushIf(PushIf(PushIf(issues.critical,
                      SlowCritical(r), "Extremely Slow Mobile Loading"),
                      PhoneHidden(r), "Phone Number Not Visible"),
                      MobileBad(r), "Mobile Website Unusable"),
     high     |-> PushIf(PushIf(PushIf(issues.high,
                      SeoBasics(r), "Missing SEO Basics"),
                      SlowHigh(r), "Slow Mobile Loading"),
                      LocalPoor(r), "Poor Local SEO Setup"),
     medium   |-> PushIf(PushIf(issues.medium,
                      NoForm(r), "No Contact Form"),
                      AltMissing(r), "Missing Image Alt Tags")]

QuickCategorizeIssues(r, issues) ==
    [critical |-> PushIf(PushIf(issues.critical,
                      SlowCritical(r), "Extremely Slow Mobile Loading"),
                      PhoneHidden(r), "Phone Number Not Visible"),
     high     |-> PushIf(PushIf(issues.high,
                      SeoBasics(r), "Missing SEO Basics"),
                      SlowHigh(r), "Slow Mobile Loading"),
     medium   |-> PushIf(PushIf(issues.medium,
                      NoForm(r), "No Contact Form"),
                      AltMissing(r), "Missing Image Alt Tags")]

(***************************************************************************)
(* Audited pages: the facts the extractors read off the target.            *)
(***************************************************************************)
LoadTimesMs == {1500, 6000, 9000}

ImageCounts == {[total |-> 0, missing |-> 0], [total |-> 2, missing |-> 1]}

MobileDomFacts ==
    {[textTooSmall |-> b, clickTargetsTooClose |-> b, viewportNotSet |-> b,
      contentWiderThanScreen |-> b] : b \in BOOLEAN}

Pages ==
    [titleLen : {0, 45}, metaLen : {140}, h1Count : {1}, images : ImageCounts,
     phone : BOOLEAN, email : BOOLEAN, form : BOOLEAN,
     address : {TRUE}, words : {{"local"}}, structuredData : {FALSE},
     ctaButtons : {1}, contactLinks : {0}, socialProof : {FALSE},
     dom : MobileDomFacts,
     ssl : {TRUE}, statusCode : {200}, canonical : {FALSE}, sitemap : {FALSE},
     robots : {TRUE}, gzip : {TRUE}, googleAnalytics : {FALSE}, googleTagManager : {FALSE}]

\* an `issues` object whose length flags are raised for a present text only
SeoIssuesOfPresentOnly(p) ==
    [missingTitle |-> p.titleLen = 0,
     titleTooShort |-> p.titleLen > 0 /\ p.titleLen < 30,
     titleTooLong |-> p.titleLen > 60,
     missingMetaDescription |-> p.metaLen = 0,
     metaDescriptionTooShort |-> p.metaLen > 0 /\ p.metaLen < 120,
     metaDescriptionTooLong |-> p.metaLen > 160,
     noH1 |-> p.h1Count = 0,
     multipleH1 |-> p.h1Count > 1,
     missingAltTags |-> p.images.missing,
     totalImages |-> p.images.total]

\* the `issues` object both SEO extractors build from title, description, h1 and img facts
SeoIssuesOf(p) ==
    [missingTitle |-> p.titleLen = 0,
     titleTooShort |-> p.titleLen < 30,
     titleTooLong |-> p.titleLen > 60,
     missingMetaDescription |-> p.metaLen = 0,
     metaDescriptionTooShort |-> p.metaLen < 120,
     metaDescriptionTooLong |-> p.metaLen > 160,
     noH1 |-> p.h1Count = 0,
     multipleH1 |-> p.h1Count > 1,
     missingAltTags |-> p.images.missing,
     totalImages |-> p.images.total]

(***************************************************************************)
(* AuditEngine extractors; ok = FALSE is the catch branch (page load       *)
(* error, timeout or evaluation error).                                    *)
(***************************************************************************)
analyzePerformance(ok, desktopLoadTime, mobileLoadTime) ==
    IF ok
    THEN PerfResult("measured",
                    Timing(mobileLoadTime, calculateSpeedScore(mobileLoadTime)),
                    Timing(desktopLoadTime, calculateSpeedScore(desktopLoadTime)), FALSE)
    ELSE PerfResult("error", Timing(0, 0), Timing(0, 0), TRUE)

analyzeMobile(p, ok) ==
    IF ok
    THEN MobileResult("rendered", calculateMobileScore(p.dom),
                      ~(p.dom.textTooSmall \/ p.dom.clickTargetsTooClose
                        \/ p.dom.viewportNotSet \/ p.dom.contentWiderThanScreen),
                      p.dom, FALSE)
    ELSE MobileResult("error", NoValue, FALSE, NoMobileIssues, TRUE)

analyzeSEO(p, ok) ==
    IF ok
    THEN SeoResult("ok", FullCalculateSEOScore(SeoIssuesOf(p)), SeoIssuesOf(p), NoSeoData, FALSE)
    ELSE SeoResult("error", NoValue, NoSeoIssues, NoSeoData, TRUE)

\* the keys of localKeywordPatterns
VocabularyTypes == {"restaurant", "home-services", "healthcare", "retail", "automotive"}

localKeywordPatterns ==
    [t \in VocabularyTypes |->
        CASE t = "restaurant"    -> {"restaurant", "dining", "menu", "reservations", "local food"}
          [] t = "home-services" -> {"local", "service area", "residential", "commercial", "licensed"}
          [] t = "healthcare"    -> {"local", "patients", "appointments", "office hours"}
          [] t = "retail"        -> {"store", "shop", "location", "hours", "local"}
          [] t = "automotive"    -> {"auto", "car", "vehicle", "service", "repair", "local"}]

\* localKeywordPatterns[bizType] || localKeywordPatterns['retail']
PatternsOf(bizType) ==
    IF bizType \in VocabularyTypes THEN localKeywordPatterns[bizType]
    ELSE localKeywordPatterns["retail"]

\* data.localKeywords: the patterns pageText includes; words are the keywords
\* of the vocabulary table that occur in the page text
FullLocalKeywords(words, bizType) == {keyword \in PatternsOf(bizType) : keyword \in words}

FullLocalScore(p, bizType) ==
      (IF p.phone THEN 25 ELSE 0) + (IF p.address THEN 25 ELSE 0)
    + (IF p.email THEN 15 ELSE 0)
    + (IF FullLocalKeywords(p.words, bizType) # {} THEN 20 ELSE 0)
    + (IF p.structuredData THEN 15 ELSE 0)

FullAnalyzeLocalSEO(p, bizType, ok) ==
    IF ok THEN ScoreResult("ok", FullLocalScore(p, bizType), FALSE)
    ELSE ScoreResult("error", 0, TRUE)

analyzeConversion(p, ok) ==
    IF ok
    THEN ConvResult("ok", (IF p.phone THEN 30 ELSE 0) + (IF p.form THEN 25 ELSE 0)
                        + (IF p.ctaButtons > 0 THEN 20 ELSE 0)
                        + (IF p.contactLinks > 0 THEN 15 ELSE 0)
                        + (IF p.socialProof THEN 10 ELSE 0),
                    p.phone, p.form, FALSE)
    ELSE ConvResult("error", 0, FALSE, FALSE, TRUE)

analyzeTechnical(p, ok) ==
    IF ok THEN ScoreResult("ok", FullCalculateTechnicalScore(p), FALSE)
    ELSE ScoreResult("error", 0, TRUE)

(***************************************************************************)
(* VercelAuditEngine extractors                                            *)
(***************************************************************************)
\* `x || d`: the default replaces a missing or zero number
OrDefault(x, d) == IF x = NoValue \/ x = 0 THEN d ELSE x

\* what getPageSpeedInsights resolves to: null (no key, thrown error), or an
\* object holding the lighthouse result of each strategy whose response was ok
NoLighthouse == [present |-> FALSE, fcp |-> NoValue, lcp |-> NoValue, perf |-> NoValue]

Lighthouses ==
    {NoLighthouse} \cup
    [present : {TRUE}, fcp : {1200}, lcp : {NoValue, 9000}, perf : {0, 35}]

PageSpeedOutcomes ==
    {[isNull |-> TRUE, mobile |-> NoLighthouse, desktop |-> NoLighthouse]} \cup
    [isNull : {FALSE}, mobile : Lighthouses,
     desktop : {NoLighthouse, [present |-> TRUE, fcp |-> 1200, lcp |-> 1500, perf |-> 92]}]

\* ok = FALSE: the HEAD probe threw
basicPerformanceCheck(ok, loadTime) ==
    IF ok
    THEN PerfResult("basic",
                    Timing((loadTime * 3) \div 2, QuickCalculateSpeedScore((loadTime * 3) \div 2)),
                    Timing(loadTime, QuickCalculateSpeedScore(loadTime)), FALSE)
    ELSE PerfResult("error", Timing(10000, 0), Timing(10000, 0), TRUE)

\* reading pagespeedData.mobile of null throws into the catch branch
checkPerformance(ps, probeOk, probeTime) ==
    IF ps.isNull THEN basicPerformanceCheck(probeOk, probeTime)
    ELSE PerfResult("insights",
            IF ps.mobile.present
            THEN Timing(Max(OrDefault(ps.mobile.fcp, 3000), OrDefault(ps.mobile.lcp, 4000)),
                        OrDefault(ps.mobile.perf, 50))
            ELSE Timing(5000, 50),
            IF ps.desktop.present
            THEN Timing(Max(OrDefault(ps.desktop.fcp, 2000), OrDefault(ps.desktop.lcp, 2500)),
                        OrDefault(ps.desktop.perf, 60))
            ELSE Timing(3000, 60),
            FALSE)

checkSEO(p, ok) ==
    IF ok
    THEN SeoResult("ok", QuickCalculateSEOScore(SeoIssuesOf(p)), SeoIssuesOf(p),
                   [phoneNumbers |-> p.phone, emails |-> p.email, hasContactForm |-> p.form],
                   FALSE)
    ELSE SeoResult("error", 0, NoSeoIssues, NoSeoData, TRUE)

checkTechnical(p, ok) ==
    IF ok THEN ScoreResult("ok", QuickCalculateTechnicalScore(p), FALSE)
    ELSE ScoreResult("error", 0, TRUE)

\* a fallback whose upper band starts at an SEO score of 70
basicMobileAnalysisInclusive(seoResults) ==
    LET score == IF seoResults.score >= 70 THEN 80 ELSE 60
    IN  MobileResult("basic", score, score > 70, NoMobileIssues, FALSE)

basicMobileAnalysis(seoResults) ==
    LET score == IF seoResults.score > 70 THEN 80 ELSE 60
    IN  MobileResult("basic", score, score > 70, NoMobileIssues, FALSE)

MobileVerdicts == {"MOBILE_FRIENDLY", "NOT_MOBILE_FRIENDLY", "unavailable"}

\* an extractor that only honours the positive verdict
analyzeMobileReadinessPositiveOnly(seoResults, verdict) ==
    IF verdict = "MOBILE_FRIENDLY" THEN MobileResult("google", 90, TRUE, NoMobileIssues, FALSE)
    ELSE basicMobileAnalysis(seoResults)

analyzeMobileReadiness(seoResults, verdict) ==
    IF verdict = "MOBILE_FRIENDLY" THEN MobileResult("google", 90, TRUE, NoMobileIssues, FALSE)
    ELSE IF verdict = "NOT_MOBILE_FRIENDLY" THEN MobileResult("google", 30, FALSE, NoMobileIssues, FALSE)
    ELSE basicMobileAnalysis(seoResults)

analyzeConversionElements(seoResults) ==
    LET data == seoResults.data
    IN  ConvResult("derived", (IF data.phoneNumbers THEN 40 ELSE 0) + (IF data.emails THEN 20 ELSE 0)
                            + (IF data.hasContactForm THEN 40 ELSE 0),
                   data.phoneNumbers, data.hasContactForm, FALSE)

QuickAnalyzeLocalSEO(seoResults) ==
    LET data == seoResults.data
    IN  ScoreResult("derived", (IF data.phoneNumbers THEN 50 ELSE 0)
                             + (IF data.emails THEN 25 ELSE 0) + 25, FALSE)

(***************************************************************************)
(* One audit run.                                                          *)
(*   engine            which pipeline runs ("full" | "quick")              *)
(*   page, businessType  the audited target                                *)
(*   pc                position of the orchestrator                        *)
(*   task              the extractor promises: "idle" | "pending" | "settled" *)
(*   fetch             outcome of each extractor's own fetch of the target *)
(*   promised          the value each settled promise holds                *)
(*   results           the `results` object of the run                     *)
(*   healthScore, revenueProjection   NoValue / NoProjection until computed*)
(***************************************************************************)
VARIABLES engine, businessType, page, pc, task, fetch, promised, results,
          healthScore, revenueProjection

auditVars == <<engine, businessType, page, pc, task, fetch, promised, results,
               healthScore, revenueProjection>>

(***************************************************************************)
(* The Vercel KV store and the cron handler (process-queues).              *)
(*   lead        the lead records in KV, status "none" before submission   *)
(*   auditStore  the stored audit results, as <<leadId, n>> keys           *)
(*   reportStore the stored reports, as <<leadId, auditId>> keys           *)
(*   queue       audit:queue and email:queue, head first (lpush side)      *)
(*   retry       audit:queue:retry and email:queue:retry                   *)
(*   cron        per invocation of the handler: position of                *)
(*               processAuditQueue, processEmailQueue (with the send-email *)
(*               handler it calls) and processRetryQueues, and whether the *)
(*               lrem of the current retry item has been done              *)
(*   held        the item processAuditQueue / processEmailQueue popped     *)
(*   snapshot    what is left of the lrange result processRetryQueues walks*)
(*   leadData    the lead record the send-email handler read               *)
(*   now         the clock, in units of the 5 minute retry delay           *)
(*   failuresLeft  how many more calls the environment lets fail           *)
(*   sentMail    the messages the mail provider accepted                   *)
(*   putInRetry, movedBack   history: how often each job was pushed to a   *)
(*               retry queue, and pushed from a retry queue to its main    *)
(*               queue                                                     *)
(***************************************************************************)
VARIABLES lead, auditStore, reportStore, queue, retry, cron, held, snapshot, leadData,
          now, failuresLeft, sentMail, putInRetry, movedBack

queueVars == <<lead, auditStore, reportStore, queue, retry, cron, held, snapshot, leadData,
               now, failuresLeft, sentMail, putInRetry, movedBack>>

(***************************************************************************)
(* One call of a function of the engines on its own.                       *)
(*   input   the function called and its arguments                         *)
(*   output  whether the call has returned, and the value it returned      *)
(***************************************************************************)
VARIABLES input, output

callVars == <<input, output>>

(***************************************************************************)
(* The browser of one AuditEngine instance.                                *)
(*   run       processAuditBackground: "idle" | "running" | "completed" |  *)
(*             "failed"                                                    *)
(*   browser   this.browser                                                *)
(*   launched  the browsers puppeteer.launch has started; none is closed   *)
(*             before cleanup()                                            *)
(*   stage     position of each extractor: "idle" | "launching" | "ready"  *)
(*             | "loading" | "returned"                                    *)
(*   pageOpen  whether the page an extractor opened is still open          *)
(***************************************************************************)
VARIABLES run, browser, launched, stage, pageOpen

browserVars == <<run, browser, launched, stage, pageOpen>>

(***************************************************************************)
(* The email_queue table and the hourly cron callback.                     *)
(*   emailQueue  status of each row, "absent" before its INSERT            *)
(*   worker      per invocation of processScheduledEmails: its position    *)
(*               and what is left of the rows getPendingEmails returned    *)
(*   handed      how often the transporter has sent each row               *)
(*   dbFailuresLeft  how many more database calls the environment lets    *)
(*               fail                                                      *)
(***************************************************************************)
VARIABLES emailQueue, worker, handed, dbFailuresLeft

mailVars == <<emailQueue, worker, handed, dbFailuresLeft>>

vars == <<auditVars, queueVars, callVars, browserVars, mailVars>>

NoProjection == [min |-> NoValue, max |-> NoValue]

FullTasks == Categories
QuickTasks == {"performance", "seo", "technical"}

TasksOf(e) == IF e = "full" THEN FullTasks ELSE QuickTasks

\* a join that resumes as soon as one promise has settled (Promise.race / Promise.any)
AnySettled(ts) == \E t \in ts : task[t] = "settled"

\* Promise.all resolves once every promise passed to it has settled
AllSettled(ts) == \A t \in ts : task[t] = "settled"

AuditInit ==
    /\ engine \in {"full", "quick"}
    /\ businessType \in BusinessTypes
    /\ page \in Pages
    /\ pc = "idle"
    /\ task = [c \in Categories |-> "idle"]
    /\ fetch = [c \in Categories |-> "none"]
    /\ promised = EmptyResults
    /\ results = NewResults
    /\ healthScore = NoValue
    /\ revenueProjection = NoProjection

\* runFullAudit / runQuickAudit up to the await of Promise.all
StartAudit ==
    /\ pc = "idle"
    /\ pc' = "extracting"
    /\ task' = [c \in Categories |-> IF c \in TasksOf(engine) THEN "pending" ELSE "idle"]
    /\ UNCHANGED <<engine, businessType, page, fetch, promised, results,
                   healthScore, revenueProjection>>
    /\ UNCHANGED <<queueVars, callVars, browserVars, mailVars>>

FetchOutcome(ok) == IF ok THEN "ok" ELSE "failed"

Settle(c, fetched, value) ==
    /\ pc = "extracting"
    /\ task[c] = "pending"
    /\ task' = [task EXCEPT ![c] = "settled"]
    /\ fetch' = [fetch EXCEPT ![c] = fetched]
    /\ promised' = [promised EXCEPT ![c] = value]
    /\ UNCHANGED <<engine, businessType, page, pc, results, healthScore, revenueProjection>>
    /\ UNCHANGED <<queueVars, callVars, browserVars, mailVars>>

AnalyzePerformance ==
    /\ engine = "full"
    /\ \E ok \in BOOLEAN, mobileLoadTime \in LoadTimesMs :
          Settle("performance", FetchOutcome(ok), analyzePerformance(ok, 1500, mobileLoadTime))

AnalyzeMobile ==
    /\ engine = "full"
    /\ \E ok \in BOOLEAN : Settle("mobile", FetchOutcome(ok), analyzeMobile(page, ok))

AnalyzeSEO ==
    /\ engine = "full"
    /\ \E ok \in BOOLEAN : Settle("seo", FetchOutcome(ok), analyzeSEO(page, ok))

AnalyzeLocalSEO ==
    /\ engine = "full"
    /\ \E ok \in BOOLEAN : Settle("local", FetchOutcome(ok), FullAnalyzeLocalSEO(page, businessType, ok))

AnalyzeConversion ==
    /\ engine = "full"
    /\ \E ok \in BOOLEAN : Settle("conversion", FetchOutcome(ok), analyzeConversion(page, ok))

AnalyzeTechnical ==
    /\ engine = "full"
    /\ \E ok \in BOOLEAN : Settle("technical", FetchOutcome(ok), analyzeTechnical(page, ok))

\* runFullAudit after the await: combine, categorize, return
FullJoin ==
    /\ engine = "full"
    /\ pc = "extracting"
    /\ AllSettled(FullTasks)
    /\ LET r == [c \in Categories |-> promised[c]]
       IN  results' = [c \in Categories \cup {"issues"} |->
                          IF c = "issues" THEN FullCategorizeIssues(r, results.issues)
                          ELSE r[c]]
    /\ pc' = "returned"
    /\ UNCHANGED <<engine, businessType, page, task, fetch, promised,
                   healthScore, revenueProjection>>
    /\ UNCHANGED <<queueVars, callVars, browserVars, mailVars>>

\* processAuditBackground after the await of runFullAudit
BackgroundScore ==
    /\ engine = "full"
    /\ pc = "returned"
    /\ healthScore' = FullCalculateHealthScore(results)
    /\ revenueProjection' = FullCalculateRevenueProjection(results, businessType)
    /\ pc' = "done"
    /\ UNCHANGED <<engine, businessType, page, task, fetch, promised, results>>
    /\ UNCHANGED <<queueVars, callVars, browserVars, mailVars>>

CheckPerformance ==
    /\ engine = "quick"
    /\ \E ps \in PageSpeedOutcomes, probeOk \in BOOLEAN, probeTime \in {1000, 6000} :
          \* the HEAD probe of the target only runs in the fallback
          /\ ps.isNull \/ (probeOk /\ probeTime = 1000)
          /\ Settle("performance", IF ps.isNull THEN FetchOutcome(probeOk) ELSE "none",
                    checkPerformance(ps, probeOk, probeTime))

CheckSEO ==
    /\ engine = "quick"
    /\ \E ok \in BOOLEAN : Settle("seo", FetchOutcome(ok), checkSEO(page, ok))

CheckTechnical ==
    /\ engine = "quick"
    /\ \E ok \in BOOLEAN : Settle("technical", FetchOutcome(ok), checkTechnical(page, ok))

\* runQuickAudit after the await of Promise.all, up to the await of
\* analyzeMobileReadiness
QuickJoin ==
    /\ engine = "quick"
    /\ pc = "extracting"
    /\ AllSettled(QuickTasks)
    /\ results' = [results EXCEPT !.performance = promised.performance,
                                  !.seo = promised.seo,
                                  !.technical = promised.technical]
    /\ task' = [task EXCEPT !["mobile"] = "pending"]
    /\ pc' = "mobile"
    /\ UNCHANGED <<engine, businessType, page, fetch, promised, healthScore, revenueProjection>>
    /\ UNCHANGED <<queueVars, callVars, browserVars, mailVars>>

\* analyzeMobileReadiness settles; runQuickAudit runs to its return
QuickFinish ==
    /\ engine = "quick"
    /\ pc = "mobile"
    /\ \E verdict \in MobileVerdicts :
          LET mobile == analyzeMobileReadiness(results.seo, verdict)
              r == [results EXCEPT !.mobile = mobile,
                                   !.conversion = analyzeConversionElements(results.seo),
                                   !.local = QuickAnalyzeLocalSEO(results.seo)]
              classified == [r EXCEPT !.issues = QuickCategorizeIssues(r, r.issues)]
          IN  /\ promised' = [promised EXCEPT !.mobile = mobile]
              /\ results' = classified
              /\ healthScore' = QuickCalculateHealthScore(classified)
              /\ revenueProjection' = QuickCalculateRevenueProjection(classified, businessType)
    /\ task' = [task EXCEPT !["mobile"] = "settled"]
    /\ pc' = "done"
    /\ UNCHANGED <<engine, businessType, page, fetch>>
    /\ UNCHANGED <<queueVars, callVars, browserVars, mailVars>>

AuditNext ==
    \/ StartAudit
    \/ AnalyzePerformance \/ AnalyzeMobile \/ AnalyzeSEO
    \/ AnalyzeLocalSEO \/ AnalyzeConversion \/ AnalyzeTechnical
    \/ FullJoin \/ BackgroundScore
    \/ CheckPerformance \/ CheckSEO \/ CheckTechnical
    \/ QuickJoin \/ QuickFinish

(***************************************************************************)
(* Queue processing                                                        *)
(***************************************************************************)
MaxLeads == 1
MaxFailures == 3
MaxTime == MaxFailures + 1

Leads == 1..MaxLeads
QueueNames == {"audit", "email"}

\* the invocations of the process-queues handler that can be in flight at once
Invocations == {1, 2}

\* no auditId / retryCount / retryAt field in the JSON item
Absent == 0

\* a queue item: type is "audit" for the items of audit:queue
Job(type, leadId, auditId) ==
    [type |-> type, leadId |-> leadId, auditId |-> auditId, retryCount |-> Absent, retryAt |-> Absent]

NoJob == Job("none", Absent, Absent)

NoLead == [status |-> "none", auditId |-> Absent, reportUrl |-> FALSE, emailSent |-> FALSE]

\* kv.lpush, kv.rpop, kv.lrem(key, 1, value)
LPush(q, item) == <<item>> \o q
RPopItem(q) == q[Len(q)]
RPopRest(q) == SubSeq(q, 1, Len(q) - 1)

RECURSIVE LRemOne(_, _)
LRemOne(q, item) ==
    IF q = <<>> THEN <<>>
    ELSE IF Head(q) = item THEN Tail(q)
    ELSE <<Head(q)>> \o LRemOne(Tail(q), item)

\* no function of the handler is running
CronIdle == [audit |-> "idle", email |-> "idle", retry |-> "idle", removed |-> FALSE]

CronStarted == [audit |-> "start", email |-> "start", retry |-> "start", removed |-> FALSE]

\* what processAuditQueue / processEmailQueue return: { processed: 1 },
\* { processed: 0 } and { processed: 0, errors: 1 }
ReturnValues == {"processed", "nothing", "errors"}

\* the empty store, no invocation running, and `failures` calls that will fail
QueueStart(failures) ==
    /\ lead = [l \in Leads |-> NoLead]
    /\ auditStore = {}
    /\ reportStore = {}
    /\ queue = [q \in QueueNames |-> <<>>]
    /\ retry = [q \in QueueNames |-> <<>>]
    /\ cron = [i \in Invocations |-> CronIdle]
    /\ held = [i \in Invocations |-> [q \in QueueNames |-> NoJob]]
    /\ snapshot = [i \in Invocations |-> <<>>]
    /\ leadData = [i \in Invocations |-> NoLead]
    /\ now = 0
    /\ failuresLeft = failures
    /\ sentMail = {}
    /\ putInRetry = EmptyBag
    /\ movedBack = EmptyBag

QueueInit == QueueStart(MaxFailures)

\* submit-audit handler: store the lead, queue the confirmation email and the audit
SubmitAudit ==
    /\ \E l \in Leads :
          /\ lead[l].status = "none"
          /\ \A k \in Leads : k < l => lead[k].status # "none"
          /\ lead' = [lead EXCEPT ![l].status = "pending"]
          /\ queue' = [queue EXCEPT !.email = LPush(@, Job("audit_request", l, Absent)),
                                    !.audit = LPush(@, Job("audit", l, Absent))]
    /\ UNCHANGED <<auditStore, reportStore, retry, cron, held, snapshot, leadData>>
    /\ UNCHANGED <<now, failuresLeft, sentMail, putInRetry, movedBack>>
    /\ UNCHANGED <<auditVars, callVars, browserVars, mailVars>>

\* process-queues handler: Promise.all starts the three functions
CronInvoke(i) ==
    /\ cron[i] = CronIdle
    /\ cron' = [cron EXCEPT ![i] = CronStarted]
    /\ UNCHANGED <<lead, auditStore, reportStore, queue, retry, held, snapshot, leadData>>
    /\ UNCHANGED <<now, failuresLeft, sentMail, putInRetry, movedBack>>
    /\ UNCHANGED <<auditVars, callVars, browserVars, mailVars>>

\* process-queues handler: all three functions returned, the response is sent
CronReturn(i) ==
    /\ cron[i].audit \in ReturnValues
    /\ cron[i].email \in ReturnValues
    /\ cron[i].retry = "done"
    /\ cron' = [cron EXCEPT ![i] = CronIdle]
    /\ UNCHANGED <<lead, auditStore, reportStore, queue, retry, held, snapshot, leadData>>
    /\ UNCHANGED <<now, failuresLeft, sentMail, putInRetry, movedBack>>
    /\ UNCHANGED <<auditVars, callVars, browserVars, mailVars>>

\* kv.rpop at the start of processAuditQueue / processEmailQueue
Pop(i, q) ==
    /\ cron[i][q] = "start"
    /\ IF queue[q] = <<>>
       THEN /\ cron' = [cron EXCEPT ![i][q] = "nothing"]
            /\ UNCHANGED <<queue, held>>
       ELSE /\ cron' = [cron EXCEPT ![i][q] = "calling"]
            /\ held' = [held EXCEPT ![i][q] = RPopItem(queue[q])]
            /\ queue' = [queue EXCEPT ![q] = RPopRest(@)]
    /\ UNCHANGED <<lead, auditStore, reportStore, retry, snapshot, leadData>>
    /\ UNCHANGED <<now, failuresLeft, sentMail, putInRetry, movedBack>>
    /\ UNCHANGED <<auditVars, callVars, browserVars, mailVars>>

AuditPop(i) == Pop(i, "audit")

EmailPop(i) == Pop(i, "email")

\* the id process-audit gives the audit: audit_<leadId>_<Date.now()>
NewAuditId(l) == Cardinality({a \in auditStore : a[1] = l}) + 1

\* process-audit answered 200: the handler stored the audit, updated the lead
\* and queued the audit_completed email
AuditCallOk(i) ==
    /\ cron[i].audit = "calling"
    /\ LET l == held[i].audit.leadId
           auditId == NewAuditId(l)
       IN  /\ auditStore' = auditStore \cup {<<l, auditId>>}
           /\ lead' = [lead EXCEPT ![l].auditId = auditId, ![l].status = "audit_completed"]
           /\ queue' = [queue EXCEPT !.email = LPush(@, Job("audit_completed", l, auditId))]
    /\ cron' = [cron EXCEPT ![i].audit = "processed"]
    /\ held' = [held EXCEPT ![i].audit = NoJob]
    /\ UNCHANGED <<reportStore, retry, snapshot, leadData>>
    /\ UNCHANGED <<now, failuresLeft, sentMail, putInRetry, movedBack>>
    /\ UNCHANGED <<auditVars, callVars, browserVars, mailVars>>

\* the item as it is pushed to the retry queue
RetryEntry(item) == [item EXCEPT !.retryCount = 1, !.retryAt = now + 1]

\* the called function answered with a non-OK status: the item goes to the
\* retry queue with retryCount 1 and retryAt five minutes ahead
CallNonOk(i, q) ==
    /\ cron[i][q] = "calling"
    /\ failuresLeft > 0
    /\ failuresLeft' = failuresLeft - 1
    /\ retry' = [retry EXCEPT ![q] = LPush(@, RetryEntry(held[i][q]))]
    /\ putInRetry' = putInRetry (+) SetToBag({held[i][q]})
    /\ cron' = [cron EXCEPT ![i][q] = "errors"]
    /\ held' = [held EXCEPT ![i][q] = NoJob]
    /\ UNCHANGED <<lead, auditStore, reportStore, queue, snapshot, leadData>>
    /\ UNCHANGED <<now, sentMail, movedBack>>
    /\ UNCHANGED <<auditVars, callVars, browserVars, mailVars>>

AuditCallNonOk(i) == CallNonOk(i, "audit")

EmailCallNonOk(i) == CallNonOk(i, "email")

\* fetch threw (network error): the catch block only logs
CallThrows(i, q) ==
    /\ cron[i][q] = "calling"
    /\ failuresLeft > 0
    /\ failuresLeft' = failuresLeft - 1
    /\ cron' = [cron EXCEPT ![i][q] = "errors"]
    /\ held' = [held EXCEPT ![i][q] = NoJob]
    /\ UNCHANGED <<lead, auditStore, reportStore, queue, retry, snapshot, leadData>>
    /\ UNCHANGED <<now, sentMail, putInRetry, movedBack>>
    /\ UNCHANGED <<auditVars, callVars, browserVars, mailVars>>

AuditCallThrows(i) == CallThrows(i, "audit")

EmailCallThrows(i) == CallThrows(i, "email")

\* send-email handler: kv.get of the lead (and of the audit results); a
\* report is generated for an audit_completed job whose lead has no reportUrl
SendEmailRead(i) ==
    /\ cron[i].email = "calling"
    /\ LET job == held[i].email
       IN  /\ lead[job.leadId].status # "none"
           /\ job.type = "audit_completed" => <<job.leadId, job.auditId>> \in auditStore
           /\ leadData' = [leadData EXCEPT ![i] = lead[job.leadId]]
           /\ cron' = [cron EXCEPT ![i].email =
                          IF job.type = "audit_completed" /\ ~lead[job.leadId].reportUrl
                          THEN "generating" ELSE "sending"]
    /\ UNCHANGED <<lead, auditStore, reportStore, queue, retry, held, snapshot>>
    /\ UNCHANGED <<now, failuresLeft, sentMail, putInRetry, movedBack>>
    /\ UNCHANGED <<auditVars, callVars, browserVars, mailVars>>

\* generate-report handler, called by send-email: it stores the report and
\* sets reportUrl on the lead record it read itself
GenerateReport(i) ==
    /\ cron[i].email = "generating"
    /\ LET job == held[i].email
       IN  /\ reportStore' = reportStore \cup {<<job.leadId, job.auditId>>}
           /\ lead' = [lead EXCEPT ![job.leadId].reportUrl = TRUE]
    /\ cron' = [cron EXCEPT ![i].email = "sending"]
    /\ UNCHANGED <<auditStore, queue, retry, held, snapshot, leadData>>
    /\ UNCHANGED <<now, failuresLeft, sentMail, putInRetry, movedBack>>
    /\ UNCHANGED <<auditVars, callVars, browserVars, mailVars>>

\* generate-report failed; send-email logs the error and goes on without a report
GenerateReportFails(i) ==
    /\ cron[i].email = "generating"
    /\ failuresLeft > 0
    /\ failuresLeft' = failuresLeft - 1
    /\ cron' = [cron EXCEPT ![i].email = "sending"]
    /\ UNCHANGED <<lead, auditStore, reportStore, queue, retry, held, snapshot, leadData>>
    /\ UNCHANGED <<now, sentMail, putInRetry, movedBack>>
    /\ UNCHANGED <<auditVars, callVars, browserVars, mailVars>>

\* send-email handler after sendEmailWithResend: for audit_completed it
\* writes back the lead record it read at its start, with the emailSent
\* fields added, and answers 200 with success = emailResult.success
SendEmailRespond(i, success) ==
    /\ cron[i].email = "sending"
    /\ LET job == held[i].email
       IN  /\ sentMail' = IF success
                          THEN sentMail \cup {[leadId |-> job.leadId, type |-> job.type]}
                          ELSE sentMail
           /\ lead' = IF job.type = "audit_completed"
                      THEN [lead EXCEPT ![job.leadId] = [leadData[i] EXCEPT !.emailSent = success]]
                      ELSE lead
    /\ cron' = [cron EXCEPT ![i].email = IF success THEN "processed" ELSE "errors"]
    /\ held' = [held EXCEPT ![i].email = NoJob]
    /\ leadData' = [leadData EXCEPT ![i] = NoLead]
    /\ UNCHANGED <<auditStore, reportStore, queue, retry, snapshot>>
    /\ UNCHANGED <<now, putInRetry, movedBack>>
    /\ UNCHANGED <<auditVars, callVars, browserVars, mailVars>>

\* the mail provider accepted the message
SendEmailOk(i) ==
    /\ SendEmailRespond(i, TRUE)
    /\ UNCHANGED failuresLeft

\* the mail provider refused or no key is configured: 200 with success = false,
\* and processEmailQueue returns without pushing the item anywhere
SendEmailFailed(i) ==
    /\ failuresLeft > 0
    /\ failuresLeft' = failuresLeft - 1
    /\ SendEmailRespond(i, FALSE)

\* processRetryQueues: kv.lrange of a retry queue
RetryScan(i, q, from) ==
    /\ cron[i].retry = from
    /\ snapshot[i] = <<>>
    /\ snapshot' = [snapshot EXCEPT ![i] = retry[q]]
    /\ cron' = [cron EXCEPT ![i].retry = q]
    /\ UNCHANGED <<lead, auditStore, reportStore, queue, retry, held, leadData>>
    /\ UNCHANGED <<now, failuresLeft, sentMail, putInRetry, movedBack>>
    /\ UNCHANGED <<auditVars, callVars, browserVars, mailVars>>

RetryScanAudit(i) == RetryScan(i, "audit", "start")

RetryScanEmail(i) == RetryScan(i, "email", "audit")

\* the job processRetryQueues pushes back: the retry fields are not copied
Requeued(item) == [item EXCEPT !.retryCount = Absent, !.retryAt = Absent]

\* processRetryQueues, the next item of the lrange result: a due item is
\* removed from the retry queue with kv.lrem, whose result is not looked at
RetryRemove(i) ==
    /\ cron[i].retry \in QueueNames
    /\ ~cron[i].removed
    /\ snapshot[i] # <<>>
    /\ LET q == cron[i].retry
           item == Head(snapshot[i])
       IN  IF item.retryAt <= now
           THEN /\ retry' = [retry EXCEPT ![q] = LRemOne(@, item)]
                /\ cron' = [cron EXCEPT ![i].removed = TRUE]
                /\ UNCHANGED snapshot
           ELSE /\ snapshot' = [snapshot EXCEPT ![i] = Tail(@)]
                /\ UNCHANGED <<retry, cron>>
    /\ UNCHANGED <<lead, auditStore, reportStore, queue, held, leadData>>
    /\ UNCHANGED <<now, failuresLeft, sentMail, putInRetry, movedBack>>
    /\ UNCHANGED <<auditVars, callVars, browserVars, mailVars>>

\* processRetryQueues after the lrem: kv.lpush to the main queue while
\* retryCount is below 3
RetryPush(i) ==
    /\ cron[i].retry \in QueueNames
    /\ cron[i].removed
    /\ LET q == cron[i].retry
           item == Head(snapshot[i])
       IN  IF item.retryCount < 3
           THEN /\ queue' = [queue EXCEPT ![q] = LPush(@, Requeued(item))]
                /\ movedBack' = movedBack (+) SetToBag({Requeued(item)})
           ELSE UNCHANGED <<queue, movedBack>>
    /\ snapshot' = [snapshot EXCEPT ![i] = Tail(@)]
    /\ cron' = [cron EXCEPT ![i].removed = FALSE]
    /\ UNCHANGED <<lead, auditStore, reportStore, retry, held, leadData>>
    /\ UNCHANGED <<now, failuresLeft, sentMail, putInRetry>>
    /\ UNCHANGED <<auditVars, callVars, browserVars, mailVars>>

\* processRetryQueues returns after the email retries
RetryReturn(i) ==
    /\ cron[i].retry = "email"
    /\ snapshot[i] = <<>>
    /\ cron' = [cron EXCEPT ![i].retry = "done"]
    /\ UNCHANGED <<lead, auditStore, reportStore, queue, retry, held, snapshot, leadData>>
    /\ UNCHANGED <<now, failuresLeft, sentMail, putInRetry, movedBack>>
    /\ UNCHANGED <<auditVars, callVars, browserVars, mailVars>>

\* five minutes pass while a retry item waits for its retryAt
Tick ==
    /\ now < MaxTime
    /\ \E q \in QueueNames : \E k \in DOMAIN retry[q] : retry[q][k].retryAt > now
    /\ now' = now + 1
    /\ UNCHANGED <<lead, auditStore, reportStore, queue, retry, cron, held, snapshot, leadData>>
    /\ UNCHANGED <<failuresLeft, sentMail, putInRetry, movedBack>>
    /\ UNCHANGED <<auditVars, callVars, browserVars, mailVars>>

\* the steps of invocation i of the process-queues handler and of the
\* functions it calls
Handler(i) ==
    \/ CronInvoke(i) \/ CronReturn(i)
    \/ AuditPop(i) \/ AuditCallOk(i) \/ AuditCallNonOk(i) \/ AuditCallThrows(i)
    \/ EmailPop(i) \/ EmailCallNonOk(i) \/ EmailCallThrows(i)
    \/ SendEmailRead(i) \/ GenerateReport(i) \/ GenerateReportFails(i)
    \/ SendEmailOk(i) \/ SendEmailFailed(i)
    \/ RetryScanAudit(i) \/ RetryScanEmail(i)
    \/ RetryRemove(i) \/ RetryPush(i) \/ RetryReturn(i)

\* the cron invocations follow one another
QueueNext == SubmitAudit \/ Tick \/ Handler(1)

\* a second invocation starts while the first is still running
OverlapNext == SubmitAudit \/ Tick \/ \E i \in Invocations : Handler(i)

(***************************************************************************)
(* Single calls: the arguments are drawn when the call is made, the action *)
(* of a function applies it.                                               *)
(***************************************************************************)
Engines == {"full", "quick"}

NoCall == [fn |-> "none"]

NotReturned == [returned |-> FALSE, value |-> NoValue]

Returned(value) == [returned |-> TRUE, value |-> value]

CallIdle == input = NoCall /\ output = NotReturned

\* load times in milliseconds: every quarter second, and the millisecond
\* after each full second
MaxQuarterSeconds == 44

LoadTimeInputs ==
    {250 * k : k \in 0..MaxQuarterSeconds} \cup {1000 * k + 1 : k \in 0..(MaxQuarterSeconds \div 4)}

MaxImages == 3

\* every combination of the flags, with missingAltTags <= totalImages
SeoIssueInputs ==
    {i \in [missingTitle : BOOLEAN, titleTooShort : BOOLEAN, titleTooLong : BOOLEAN,
            missingMetaDescription : BOOLEAN, metaDescriptionTooShort : BOOLEAN,
            metaDescriptionTooLong : BOOLEAN, noH1 : BOOLEAN, multipleH1 : BOOLEAN,
            missingAltTags : 0..MaxImages, totalImages : 0..MaxImages] :
        i.missingAltTags <= i.totalImages}

\* the denominator of the alt-tag fraction
ImageDenominator(issues) == IF issues.totalImages > 0 THEN issues.totalImages ELSE 1

ProbeTimes == {1000, 6000}

SeoScoreInputs == {0, 50, 70, 75, 100}

\* what checkSEO can hand to the functions that derive from it
SeoResultInputs ==
    {SeoResult("ok", s, NoSeoIssues, NoSeoData, FALSE) : s \in SeoScoreInputs}
        \cup {SeoResult("error", 0, NoSeoIssues, NoSeoData, TRUE)}

\* how the call of the Mobile-Friendly Test API ends
MobileTestOutcomes ==
    {"no-key", "threw", "non-ok", "MOBILE_FRIENDLY", "NOT_MOBILE_FRIENDLY",
     "MOBILE_FRIENDLY_TEST_RESULT_UNSPECIFIED"}

\* null without a key, on a thrown error and on a non-OK response
getMobileFriendlyTest(outcome) ==
    IF outcome \in {"no-key", "threw", "non-ok"} THEN "unavailable" ELSE outcome

BusinessTypeInputs == KnownTypes \cup {"florist", "other"}

SamplePage ==
    CHOOSE p \in Pages :
        /\ p.titleLen = 45 /\ p.images.total = 2
        /\ p.phone /\ ~p.email /\ p.form /\ ~p.dom.textTooSmall

PageWords == {"store", "menu"}

LocalPages == {[SamplePage EXCEPT !.words = w] : w \in SUBSET PageWords}

\* VercelAuditEngine.analyzeLocalSEO builds data from businessType and the
\* contact info only: it matches no keyword
QuickLocalKeywords(words, bizType) == {}

\* a category result of a finished extractor, and of one whose fetch failed
ExtractorResult(e, c, ok) ==
    LET seo == checkSEO(SamplePage, ok)
    IN  CASE c = "performance" ->
                IF e = "full" THEN analyzePerformance(ok, 1500, 6000)
                ELSE basicPerformanceCheck(ok, 1000)
          [] c = "mobile" ->
                IF e = "full" THEN analyzeMobile(SamplePage, ok)
                ELSE analyzeMobileReadiness(seo, "unavailable")
          [] c = "seo" ->
                IF e = "full" THEN analyzeSEO(SamplePage, ok) ELSE seo
          [] c = "local" ->
                IF e = "full" THEN FullAnalyzeLocalSEO(SamplePage, "retail", ok)
                ELSE QuickAnalyzeLocalSEO(seo)
          [] c = "conversion" ->
                IF e = "full" THEN analyzeConversion(SamplePage, ok)
                ELSE analyzeConversionElements(seo)
          [] c = "technical" ->
                IF e = "full" THEN analyzeTechnical(SamplePage, ok)
                ELSE checkTechnical(SamplePage, ok)

\* the extractors that have a catch branch of their own
Failing(e) == IF e = "full" THEN Categories ELSE QuickTasks

\* per category: "absent" (the {} placeholder), "errored" (the catch branch), "ok"
Outcomes(e) ==
    {o \in [Categories -> {"absent", "errored", "ok"}] :
        \A c \in Categories : o[c] = "errored" => c \in Failing(e)}

ResultsOf(e, o) ==
    [c \in Categories \cup {"issues"} |->
        IF c = "issues" THEN EmptyIssues
        ELSE IF o[c] = "absent" THEN EmptyResults[c]
        ELSE ExtractorResult(e, c, o[c] = "ok")]

AllOk == [c \in Categories |-> "ok"]
AllAbsent == [c \in Categories |-> "absent"]

(* website strings, one character per element *)
StartsWith(s, prefix) == Len(s) >= Len(prefix) /\ SubSeq(s, 1, Len(prefix)) = prefix

Http == <<"h", "t", "t", "p">>
HttpScheme == Http \o <<":", "/", "/">>
HttpsScheme == Http \o <<"s", ":", "/", "/">>

Host == <<"a", ".", "i", "o">>

WebsiteInputs ==
    {Host, HttpScheme \o Host, HttpsScheme \o Host,
     Http \o <<"b", "i", "n", ".", "i", "o">>,
     Http \o <<".", "i", "o">>,
     <<"w", "w", "w", ".">> \o Host,
     <<"f", "t", "p", ":", "/", "/">> \o Host}

\* websiteUrl.startsWith('http') ? websiteUrl : `https://${websiteUrl}`
FullAuditUrl(websiteUrl) ==
    IF StartsWith(websiteUrl, Http) THEN websiteUrl ELSE HttpsScheme \o websiteUrl

QuickAuditUrl(websiteUrl) ==
    IF StartsWith(websiteUrl, Http) THEN websiteUrl ELSE HttpsScheme \o websiteUrl

SubmitWebsiteUrl(website) ==
    IF ~StartsWith(website, HttpScheme) /\ ~StartsWith(website, HttpsScheme)
    THEN HttpsScheme \o website ELSE website

UrlSites == {"runFullAudit", "runQuickAudit", "submit-audit"}

\* title and meta description lengths around the 30 / 60 and 120 / 160 limits
TitleLengths == {0, 29, 45, 61}
MetaLengths == {0, 119, 140, 161}

SeoPages ==
    {[SamplePage EXCEPT !.titleLen = t, !.metaLen = d, !.h1Count = h, !.images = i] :
        t \in TitleLengths, d \in MetaLengths, h \in 0..2, i \in ImageCounts}

Calls ==
    [fn : {"calculateSpeedScore"}, engine : Engines, loadTime : LoadTimeInputs]
    \cup [fn : {"calculateSEOScore"}, engine : Engines, issues : SeoIssueInputs]
    \cup [fn : {"checkPerformance"}, ps : PageSpeedOutcomes, probeOk : BOOLEAN,
          probeTime : ProbeTimes]
    \cup [fn : {"analyzeMobileReadiness"}, seoResults : SeoResultInputs,
          outcome : MobileTestOutcomes]
    \cup [fn : {"calculateRevenueProjection"}, engine : Engines,
          businessType : BusinessTypeInputs, outcome : {AllOk, AllAbsent}]
    \cup [fn : {"analyzeLocalSEO"}, engine : Engines, businessType : BusinessTypeInputs,
          page : LocalPages]
    \cup [fn : {"normalizeUrl"}, site : UrlSites, website : WebsiteInputs]
    \cup [fn : {"analyzePerformance"}, ok : BOOLEAN, desktopLoadTime : LoadTimesMs,
          mobileLoadTime : LoadTimesMs]
    \cup [fn : {"analyzeSEO"}, engine : Engines, page : SeoPages, ok : BOOLEAN]
    \cup {c \in [fn : {"calculateHealthScore"}, engine : Engines,
                 outcome : [Categories -> {"absent", "errored", "ok"}]] :
             c.outcome \in Outcomes(c.engine)}

CallInit == input \in Calls /\ output = NotReturned

Return(fn, value) ==
    /\ input.fn = fn
    /\ ~output.returned
    /\ output' = Returned(value)
    /\ UNCHANGED <<input, auditVars, queueVars, browserVars, mailVars>>

CallCalculateSpeedScore ==
    Return("calculateSpeedScore",
           IF input.engine = "full" THEN calculateSpeedScore(input.loadTime)
           ELSE QuickCalculateSpeedScore(input.loadTime))

\* the score as a fraction num / den
CallCalculateSEOScore ==
    Return("calculateSEOScore",
           LET k == ImageDenominator(input.issues)
           IN  [num |-> IF input.engine = "full"
                        THEN FullCalculateSEOScoreTimes(k, input.issues)
                        ELSE QuickCalculateSEOScoreTimes(k, input.issues),
                den |-> k])

CallCheckPerformance ==
    Return("checkPerformance", checkPerformance(input.ps, input.probeOk, input.probeTime))

CallAnalyzeMobileReadiness ==
    Return("analyzeMobileReadiness",
           analyzeMobileReadiness(input.seoResults, getMobileFriendlyTest(input.outcome)))

CallCalculateRevenueProjection ==
    Return("calculateRevenueProjection",
           LET r == ResultsOf(input.engine, input.outcome)
           IN  IF input.engine = "full"
               THEN FullCalculateRevenueProjection(r, input.businessType)
               ELSE QuickCalculateRevenueProjection(r, input.businessType))

CallAnalyzeLocalSEO ==
    Return("analyzeLocalSEO",
           IF input.engine = "full"
           THEN [localKeywords |-> FullLocalKeywords(input.page.words, input.businessType),
                 result |-> FullAnalyzeLocalSEO(input.page, input.businessType, TRUE)]
           ELSE [localKeywords |-> QuickLocalKeywords(input.page.words, input.businessType),
                 result |-> QuickAnalyzeLocalSEO(checkSEO(input.page, TRUE))])

CallNormalizeUrl ==
    Return("normalizeUrl",
           CASE input.site = "runFullAudit"  -> FullAuditUrl(input.website)
             [] input.site = "runQuickAudit" -> QuickAuditUrl(input.website)
             [] input.site = "submit-audit"  -> SubmitWebsiteUrl(input.website))

CallCalculateHealthScore ==
    Return("calculateHealthScore",
           LET r == ResultsOf(input.engine, input.outcome)
           IN  IF input.engine = "full" THEN FullCalculateHealthScore(r)
               ELSE QuickCalculateHealthScore(r))

CallAnalyzePerformance ==
    Return("analyzePerformance",
           analyzePerformance(input.ok, input.desktopLoadTime, input.mobileLoadTime))

\* AuditEngine.analyzeSEO / VercelAuditEngine.checkSEO
CallAnalyzeSEO ==
    Return("analyzeSEO",
           IF input.engine = "full" THEN analyzeSEO(input.page, input.ok)
           ELSE checkSEO(input.page, input.ok))

CallNext ==
    \/ CallCalculateSpeedScore \/ CallCalculateSEOScore
    \/ CallCheckPerformance \/ CallAnalyzeMobileReadiness
    \/ CallCalculateRevenueProjection \/ CallAnalyzeLocalSEO
    \/ CallNormalizeUrl \/ CallCalculateHealthScore
    \/ CallAnalyzePerformance \/ CallAnalyzeSEO

(***************************************************************************)
(* The browser of an AuditEngine during one processAuditBackground         *)
(***************************************************************************)
\* this.browser = null
NoBrowser == "none"

\* new AuditEngine(db), before runFullAudit
BrowserInit ==
    /\ run = "idle"
    /\ browser = NoBrowser
    /\ launched = {}
    /\ stage = [c \in Categories |-> "idle"]
    /\ pageOpen = [c \in Categories |-> FALSE]

\* runFullAudit: Promise.all calls the six extractors one after the other;
\* each runs up to its first await, which is inside initBrowser, so each one
\* tests this.browser before any launch has resolved
RunFullAudit ==
    /\ run = "idle"
    /\ run' = "running"
    /\ stage' = [c \in Categories |-> IF browser = NoBrowser THEN "launching" ELSE "ready"]
    /\ UNCHANGED <<browser, launched, pageOpen>>
    /\ UNCHANGED <<auditVars, queueVars, callVars, mailVars>>

\* initBrowser: puppeteer.launch resolved for extractor c; the browser is
\* named after the extractor whose call launched it
LaunchResolves(c) ==
    /\ stage[c] = "launching"
    /\ launched' = launched \cup {c}
    /\ browser' = c
    /\ stage' = [stage EXCEPT ![c] = "ready"]
    /\ UNCHANGED <<run, pageOpen>>
    /\ UNCHANGED <<auditVars, queueVars, callVars, mailVars>>

\* puppeteer.launch rejected: the catch block of the extractor returns the
\* error result
LaunchRejects(c) ==
    /\ stage[c] = "launching"
    /\ stage' = [stage EXCEPT ![c] = "returned"]
    /\ UNCHANGED <<run, browser, launched, pageOpen>>
    /\ UNCHANGED <<auditVars, queueVars, callVars, mailVars>>

\* browser.newPage()
NewPage(c) ==
    /\ stage[c] = "ready"
    /\ pageOpen' = [pageOpen EXCEPT ![c] = TRUE]
    /\ stage' = [stage EXCEPT ![c] = "loading"]
    /\ UNCHANGED <<run, browser, launched>>
    /\ UNCHANGED <<auditVars, queueVars, callVars, mailVars>>

\* page.goto and page.evaluate succeeded: page.close(), then the result
PageLoaded(c) ==
    /\ stage[c] = "loading"
    /\ pageOpen' = [pageOpen EXCEPT ![c] = FALSE]
    /\ stage' = [stage EXCEPT ![c] = "returned"]
    /\ UNCHANGED <<run, browser, launched>>
    /\ UNCHANGED <<auditVars, queueVars, callVars, mailVars>>

\* page.goto or page.evaluate threw: the catch block returns the error
\* result; page.close() is in the try block only
PageThrows(c) ==
    /\ stage[c] = "loading"
    /\ stage' = [stage EXCEPT ![c] = "returned"]
    /\ UNCHANGED <<run, browser, launched, pageOpen>>
    /\ UNCHANGED <<auditVars, queueVars, callVars, mailVars>>

\* processAuditBackground after runFullAudit returned: the results are
\* saved and mailed (completed) or an error is caught (failed)
BackgroundEnds(outcome) ==
    /\ run = "running"
    /\ \A c \in Categories : stage[c] = "returned"
    /\ run' = outcome
    /\ UNCHANGED <<browser, launched, stage, pageOpen>>
    /\ UNCHANGED <<auditVars, queueVars, callVars, mailVars>>

BackgroundCompletes == BackgroundEnds("completed")

BackgroundFails == BackgroundEnds("failed")

\* the browsers still open after cleanup(): it closes this.browser only
cleanup(open) == IF browser # NoBrowser THEN open \ {browser} ELSE open

BrowserNext ==
    \/ RunFullAudit
    \/ \E c \in Categories :
          \/ LaunchResolves(c) \/ LaunchRejects(c)
          \/ NewPage(c) \/ PageLoaded(c) \/ PageThrows(c)
    \/ BackgroundCompletes \/ BackgroundFails

(***************************************************************************)
(* The email_queue table and the hourly processScheduledEmails             *)
(***************************************************************************)
MaxRows == 2
MaxDbFailures == 2

Rows == 1..MaxRows

NoWork == [pc |-> "idle", pendingEmails |-> <<>>]

MailInit ==
    /\ emailQueue = [r \in Rows |-> "absent"]
    /\ worker = [i \in Invocations |-> NoWork]
    /\ handed = [r \in Rows |-> 0]
    /\ dbFailuresLeft = MaxDbFailures

\* queueEmail: INSERT INTO email_queue, status 'pending' by default
QueueEmail ==
    /\ \E r \in Rows :
          /\ emailQueue[r] = "absent"
          /\ \A k \in Rows : k < r => emailQueue[k] # "absent"
          /\ emailQueue' = [emailQueue EXCEPT ![r] = "pending"]
    /\ UNCHANGED <<worker, handed, dbFailuresLeft>>
    /\ UNCHANGED <<auditVars, queueVars, callVars, browserVars>>

\* the rows SELECT ... WHERE status = 'pending' returns, in id order
RECURSIVE PendingFrom(_)
PendingFrom(r) ==
    IF r > MaxRows THEN <<>>
    ELSE (IF emailQueue[r] = "pending" THEN <<r>> ELSE <<>>) \o PendingFrom(r + 1)

\* the cron callback: processScheduledEmails starts with getPendingEmails
GetPendingEmails(i) ==
    /\ worker[i].pc = "idle"
    /\ worker' = [worker EXCEPT ![i] = [pc |-> "loop", pendingEmails |-> PendingFrom(1)]]
    /\ UNCHANGED <<emailQueue, handed, dbFailuresLeft>>
    /\ UNCHANGED <<auditVars, queueVars, callVars, browserVars>>

\* sendScheduledEmail: transporter.sendMail resolved
SendMail(i) ==
    /\ worker[i].pc = "loop"
    /\ worker[i].pendingEmails # <<>>
    /\ handed' = [handed EXCEPT ![Head(worker[i].pendingEmails)] = @ + 1]
    /\ worker' = [worker EXCEPT ![i].pc = "marking"]
    /\ UNCHANGED <<emailQueue, dbFailuresLeft>>
    /\ UNCHANGED <<auditVars, queueVars, callVars, browserVars>>

\* sendScheduledEmail threw before the message was sent: no transporter, or
\* sendMail rejected
SendMailRejects(i) ==
    /\ worker[i].pc = "loop"
    /\ worker[i].pendingEmails # <<>>
    /\ worker' = [worker EXCEPT ![i].pc = "failing"]
    /\ UNCHANGED <<emailQueue, handed, dbFailuresLeft>>
    /\ UNCHANGED <<auditVars, queueVars, callVars, browserVars>>

\* markEmailSent: UPDATE email_queue SET status = 'sent' WHERE id = ?
MarkEmailSent(i) ==
    /\ worker[i].pc = "marking"
    /\ emailQueue' = [emailQueue EXCEPT ![Head(worker[i].pendingEmails)] = "sent"]
    /\ worker' = [worker EXCEPT ![i].pc = "logging"]
    /\ UNCHANGED <<handed, dbFailuresLeft>>
    /\ UNCHANGED <<auditVars, queueVars, callVars, browserVars>>

\* a database call of sendScheduledEmail rejected after the send (markEmailSent
\* from "marking", logInteraction from "logging"): the catch block of the loop
\* goes on to markEmailFailed
DbCallRejects(i, at) ==
    /\ worker[i].pc = at
    /\ dbFailuresLeft > 0
    /\ dbFailuresLeft' = dbFailuresLeft - 1
    /\ worker' = [worker EXCEPT ![i].pc = "failing"]
    /\ UNCHANGED <<emailQueue, handed>>
    /\ UNCHANGED <<auditVars, queueVars, callVars, browserVars>>

MarkEmailSentRejects(i) == DbCallRejects(i, "marking")

LogInteractionRejects(i) == DbCallRejects(i, "logging")

\* logInteraction resolved: sendScheduledEmail returns, the loop goes on
LogInteraction(i) ==
    /\ worker[i].pc = "logging"
    /\ worker' = [worker EXCEPT ![i] = [pc |-> "loop", pendingEmails |-> Tail(@.pendingEmails)]]
    /\ UNCHANGED <<emailQueue, handed, dbFailuresLeft>>
    /\ UNCHANGED <<auditVars, queueVars, callVars, browserVars>>

\* markEmailFailed: UPDATE email_queue SET status = 'failed' WHERE id = ?
MarkEmailFailed(i) ==
    /\ worker[i].pc = "failing"
    /\ emailQueue' = [emailQueue EXCEPT ![Head(worker[i].pendingEmails)] = "failed"]
    /\ worker' = [worker EXCEPT ![i] = [pc |-> "loop", pendingEmails |-> Tail(@.pendingEmails)]]
    /\ UNCHANGED <<handed, dbFailuresLeft>>
    /\ UNCHANGED <<auditVars, queueVars, callVars, browserVars>>

\* markEmailFailed rejected: the outer catch of processScheduledEmails logs
\* and the function returns
MarkEmailFailedRejects(i) ==
    /\ worker[i].pc = "failing"
    /\ dbFailuresLeft > 0
    /\ dbFailuresLeft' = dbFailuresLeft - 1
    /\ worker' = [worker EXCEPT ![i] = NoWork]
    /\ UNCHANGED <<emailQueue, handed>>
    /\ UNCHANGED <<auditVars, queueVars, callVars, browserVars>>

\* the loop is through: processScheduledEmails returns
ProcessReturns(i) ==
    /\ worker[i].pc = "loop"
    /\ worker[i].pendingEmails = <<>>
    /\ worker' = [worker EXCEPT ![i] = NoWork]
    /\ UNCHANGED <<emailQueue, handed, dbFailuresLeft>>
    /\ UNCHANGED <<auditVars, queueVars, callVars, browserVars>>

\* the steps of invocation i of the cron callback
ProcessScheduledEmails(i) ==
    \/ GetPendingEmails(i)
    \/ SendMail(i) \/ SendMailRejects(i)
    \/ MarkEmailSent(i) \/ MarkEmailSentRejects(i)
    \/ LogInteraction(i) \/ LogInteractionRejects(i)
    \/ MarkEmailFailed(i) \/ MarkEmailFailedRejects(i)
    \/ ProcessReturns(i)

MailNext == QueueEmail \/ \E i \in Invocations : ProcessScheduledEmails(i)

(***************************************************************************)
(* Specifications                                                          *)
(***************************************************************************)
\* one audit run, the queues untouched
Init == AuditInit /\ QueueInit /\ CallIdle /\ BrowserInit /\ MailInit

Next == AuditNext

Spec == Init /\ [][Next]_vars

\* the engine as constructed, before any run
AuditIdle ==
    /\ engine = "quick"
    /\ businessType = "retail"
    /\ page = CHOOSE p \in Pages : TRUE
    /\ pc = "idle"
    /\ task = [c \in Categories |-> "idle"]
    /\ fetch = [c \in Categories |-> "none"]
    /\ promised = EmptyResults
    /\ results = NewResults
    /\ healthScore = NoValue
    /\ revenueProjection = NoProjection

QueueSpecInit == AuditIdle /\ QueueInit /\ CallIdle /\ BrowserInit /\ MailInit

\* the cron handler keeps being invoked and every step it takes completes;
\* the failing outcomes of a call are never forced, and at most MaxFailures
\* calls fail
QueueFairness ==
    /\ WF_vars(CronInvoke(1)) /\ WF_vars(CronReturn(1))
    /\ WF_vars(AuditPop(1)) /\ WF_vars(AuditCallOk(1))
    /\ WF_vars(EmailPop(1)) /\ WF_vars(SendEmailRead(1))
    /\ WF_vars(GenerateReport(1)) /\ WF_vars(SendEmailOk(1))
    /\ WF_vars(RetryScanAudit(1)) /\ WF_vars(RetryScanEmail(1))
    /\ WF_vars(RetryRemove(1)) /\ WF_vars(RetryPush(1)) /\ WF_vars(RetryReturn(1))
    /\ WF_vars(Tick)

LiveSpec == QueueSpecInit /\ [][QueueNext]_vars /\ QueueFairness

\* two invocations of the handler in flight, every step of each completing
OverlapFairness ==
    \A i \in Invocations : WF_vars(Handler(i))

\* one call fails, which is what it takes to put an item into a retry queue
OverlapInit == AuditIdle /\ QueueStart(1) /\ CallIdle /\ BrowserInit /\ MailInit

OverlapSpec == OverlapInit /\ [][OverlapNext]_vars /\ OverlapFairness

\* one call of one function, no run and no queue
CallSpecInit == AuditIdle /\ QueueInit /\ CallInit /\ BrowserInit /\ MailInit

CallSpec == CallSpecInit /\ [][CallNext]_vars

\* one processAuditBackground with a new AuditEngine; every launch and page
\* load ends one way or the other
BrowserSpecInit == AuditIdle /\ QueueInit /\ CallIdle /\ BrowserInit /\ MailInit

BrowserSpec == BrowserSpecInit /\ [][BrowserNext]_vars /\ WF_vars(BrowserNext)

\* rows are queued and the cron callback runs, a second invocation possibly
\* before the first has returned; every step of an invocation completes
MailSpecInit == AuditIdle /\ QueueInit /\ CallIdle /\ BrowserInit /\ MailInit

MailSpec ==
    MailSpecInit /\ [][MailNext]_vars
        /\ \A i \in Invocations : WF_vars(ProcessScheduledEmails(i))

(***************************************************************************)
(* Properties of an audit run                                              *)
(***************************************************************************)
RunReturned == pc \in {"returned", "done"}

Range(seq) == {seq[i] : i \in DOMAIN seq}

\* the score a category result carries: the mobile speed score for performance
CarriedScore(r, c) == IF c = "performance" THEN r.performance.mobile.score ELSE r[c].score

WeightedMean(r, cats) ==
    LET num == SumOver(cats, [c \in Categories |-> CarriedScore(r, c) * weights[c]])
        den == SumOver(cats, weights)
    IN  IF den > 0 THEN Round(num, den) ELSE 0

\* C1: in both engines the health score is an integer in [0,100] equal to
\* round(sum(score*w) / sum(w)) over exactly the categories whose result
\* carries a score, performance (its mobile speed score) taking part with 0.30.
C1_HealthScoreIsWeightedMean ==
    pc = "done" =>
        /\ healthScore \in 0..100
        /\ healthScore = WeightedMean(results, {c \in Categories : Defined(CarriedScore(results, c))})

\* the results with every failed extractor's scores absent
WithoutFailed(r) ==
    [c \in DOMAIN r |->
        IF c \in Categories /\ r[c].err
        THEN (IF c = "performance"
              THEN [r[c] EXCEPT !.mobile.score = NoValue, !.desktop.score = NoValue]
              ELSE [r[c] EXCEPT !.score = NoValue])
        ELSE r[c]]

EngineHealthScore(r) ==
    IF engine = "full" THEN FullCalculateHealthScore(r) ELSE QuickCalculateHealthScore(r)

\* C2: a failed extractor is left out of numerator and denominator of the
\* aggregation: the health score of a run is the one the aggregation gives
\* when the failed extractors carry no score, never the one that counts
\* them as 0.
C2_FailedExtractorNotCounted ==
    pc = "done" => healthScore = EngineHealthScore(WithoutFailed(results))

\* C3: an extractor whose fetch failed settles with a degraded result, score 0
\* and an error note, and every sibling that did not fail settles with a
\* result that is not degraded.
C3_FailureDegradesToZero ==
    \A c \in Categories :
        task[c] = "settled" =>
            IF fetch[c] = "failed"
            THEN promised[c].err /\ CarriedScore(promised, c) = 0
            ELSE ~promised[c].err

\* C4: a run returns a result only if some fetch of the target succeeded; on
\* total fetcher failure it fails and returns no result.
C4_FailsIffNoFetchSucceeded ==
    RunReturned => \E c \in Categories : fetch[c] = "ok"

\* the steps in which the classifier, the aggregator or the projector run
Aggregating ==
    \/ pc' # pc /\ pc' \in {"returned", "done"}
    \/ results'.issues # results.issues
    \/ healthScore' # healthScore
    \/ revenueProjection' # revenueProjection

\* C5: classification, aggregation and projection run only in steps taken
\* when every extractor task launched with Promise.all has settled, and they
\* leave no task pending and no category result the empty placeholder.
C5_AggregationAfterExtraction ==
    [][Aggregating =>
          /\ \A t \in TasksOf(engine) : task[t] = "settled"
          /\ \A c \in Categories : task'[c] # "pending" /\ results'[c].kind # "empty"]_vars

\* a finished run in which one extractor degraded and another did not
C5_Witness ==
    /\ pc = "done"
    /\ healthScore # NoValue
    /\ \E c, d \in Categories : results[c].err /\ ~results[d].err

Issued(tier, title) == title \in Range(results.issues[tier])

\* C6: after categorizeIssues each rule's issue is in its tier exactly when
\* the rule's condition holds, in both pipelines.
C6_IssueIffCondition ==
    RunReturned =>
        /\ Issued("critical", "Extremely Slow Mobile Loading")
              <=> Gt(results.performance.mobile.loadTime, 8000)
        /\ Issued("critical", "Phone Number Not Visible") <=> ~results.conversion.phoneVisible
        /\ Issued("critical", "Mobile Website Unusable") <=> Lt(results.mobile.score, 40)
        /\ Issued("high", "Missing SEO Basics")
              <=> (results.seo.issues.missingTitle \/ results.seo.issues.missingMetaDescription)
        /\ Issued("high", "Slow Mobile Loading")
              <=> (Gt(results.performance.mobile.loadTime, 5000)
                   /\ results.performance.mobile.loadTime <= 8000)
        /\ Issued("high", "Poor Local SEO Setup") <=> Lt(results.local.score, 50)
        /\ Issued("medium", "No Contact Form") <=> ~results.conversion.contactFormPresent
        /\ Issued("medium", "Missing Image Alt Tags") <=> results.seo.issues.missingAltTags > 0

\* the multiplier of section 4.9, in tenths
ClaimedMultiplier(r, type) ==
    10 + (IF Gt(r.performance.mobile.loadTime, 5000) THEN 3 ELSE 0)
       + (IF Gt(r.performance.mobile.loadTime, 8000) THEN 5 ELSE 0)
       + (IF Lt(r.mobile.score, 50) THEN 4 ELSE 0)
       + (IF Lt(r.seo.score, 60) THEN 3 ELSE 0)
       + (IF ~r.conversion.phoneVisible THEN 4 ELSE 0)
       + (IF ~r.conversion.contactFormPresent THEN 2 ELSE 0)
       + (IF type \in {"restaurant", "home-services", "healthcare", "automotive"}
             /\ Lt(r.local.score, 50) THEN 5 ELSE 0)

\* C7: in both pipelines the projection is the base range times the sum of the
\* increments of the triggered findings.
C7_ProjectionIsAdditive ==
    pc = "done" =>
        LET m == ClaimedMultiplier(results, businessType)
            base == BaseOf(businessType)
        IN  revenueProjection = [min |-> Round(base.min * m, 10), max |-> Round(base.max * m, 10)]

\* C8: mobile load time 9.0 s, home-services, phone not visible: both critical
\* issues are emitted and the projection is at least 6600 / 17600, and exactly
\* that when no other finding is triggered.
C8_SlowHiddenPhoneExample ==
    (/\ pc = "done"
     /\ businessType = "home-services"
     /\ results.performance.mobile.loadTime = 9000
     /\ ~results.conversion.phoneVisible)
    =>
        /\ Issued("critical", "Extremely Slow Mobile Loading")
        /\ Issued("critical", "Phone Number Not Visible")
        /\ revenueProjection.min >= 6600
        /\ revenueProjection.max >= 17600
        /\ ClaimedMultiplier(results, businessType) = 22
              => revenueProjection = [min |-> 6600, max |-> 17600]

\* the SEO result of the same run had the SEO fetch gone the other way
SeoFlipped ==
    IF engine = "full" THEN analyzeSEO(page, fetch.seo # "ok")
    ELSE checkSEO(page, fetch.seo # "ok")

\* C10: the mobile, conversion and local results of a run are the ones the run
\* produces on the same page, with the same outcomes of everything else, when
\* the SEO extractor's outcome is the opposite one.
C10_SeoIndependence ==
    (pc = "done" /\ engine = "quick") =>
        /\ results.mobile = (IF results.mobile.kind = "basic"
                             THEN basicMobileAnalysis(SeoFlipped) ELSE results.mobile)
        /\ results.conversion = analyzeConversionElements(SeoFlipped)
        /\ results.local = QuickAnalyzeLocalSEO(SeoFlipped)

(***************************************************************************)
(* Properties of the queue processing                                      *)
(***************************************************************************)
Served(l) ==
    /\ \E a \in auditStore : a[1] = l
    /\ [leadId |-> l, type |-> "audit_completed"] \in sentMail

\* C9: every lead accepted by submit-audit eventually has its audit result
\* stored and its audit_completed email sent, provided the cron handler keeps
\* running and calls fail only finitely often.
C9_EveryLeadServed == \A l \in Leads : (lead[l].status # "none") ~> Served(l)

(***************************************************************************)
(* Properties of the extractors and the score functions                    *)
(***************************************************************************)
\* the page-speed provider gave no usable answer for at least one strategy
ProviderFailed(ps) == ps.isNull \/ ~ps.mobile.present \/ ~ps.desktop.present

\* C11: whenever the page-speed provider is unavailable or fails (no key,
\* thrown error, non-OK response for the mobile and/or the desktop strategy)
\* and the local probe answers, checkPerformance reports the timing of the
\* local probe, never fixed default numbers.
C11_FallsBackToLocalTiming ==
    (/\ input.fn = "checkPerformance"
     /\ output.returned
     /\ ProviderFailed(input.ps)
     /\ input.probeOk)
    =>
        /\ output.value.kind = "basic"
        /\ output.value.desktop.loadTime = input.probeTime
        /\ output.value.mobile.loadTime = (input.probeTime * 3) \div 2

\* C12: a run in which page rendering is unavailable (the quick engine) or
\* failed inside the mobile extractor still returns, and its mobile result
\* carries a defined numeric score.
C12_MobileDegradesToScore ==
    (RunReturned /\ (engine = "quick" \/ fetch.mobile = "failed"))
        => Defined(results.mobile.score)

\* C13: analyzeMobileReadiness returns score 90, friendly and no issue flag
\* for the verdict MOBILE_FRIENDLY, score 30 and not friendly for
\* NOT_MOBILE_FRIENDLY, and the basic fallback analysis in every other case
\* (no key, thrown error, non-OK response, another verdict).
C13_VerdictDecidesMobileResult ==
    (input.fn = "analyzeMobileReadiness" /\ output.returned) =>
        LET r == output.value
        IN  CASE input.outcome = "MOBILE_FRIENDLY" ->
                    /\ r.score = 90 /\ r.friendly
                    /\ \A flag \in DOMAIN r.issues : ~r.issues[flag]
              [] input.outcome = "NOT_MOBILE_FRIENDLY" ->
                    r.score = 30 /\ ~r.friendly
              [] OTHER ->
                    /\ r.kind = "basic" /\ ~r.err
                    /\ r = basicMobileAnalysis(input.seoResults)

\* the provider call threw and the fallback analysis answered
C13_Witness ==
    /\ input.fn = "analyzeMobileReadiness"
    /\ output.returned
    /\ input.outcome = "threw"
    /\ output.value.kind = "basic"

\* the table of section 4.3, load time in milliseconds
ClaimedSpeedScore(t) ==
    CASE t <= 2000                -> 100
      [] t > 2000 /\ t <= 3000    -> 90
      [] t > 3000 /\ t <= 4000    -> 75
      [] t > 4000 /\ t <= 5000    -> 60
      [] t > 5000 /\ t <= 7000    -> 40
      [] t > 7000 /\ t <= 10000   -> 20
      [] t > 10000                -> 0

EngineSpeedScore(e, t) ==
    IF e = "full" THEN calculateSpeedScore(t) ELSE QuickCalculateSpeedScore(t)

\* C14: calculateSpeedScore returns 100 / 90 / 75 / 60 / 40 / 20 / 0 for a
\* load time up to 2 / 3 / 4 / 5 / 7 / 10 seconds and beyond, the same in both
\* engines, and no larger load time gets a larger score.
C14_SpeedScoreTable ==
    (input.fn = "calculateSpeedScore" /\ output.returned) =>
        /\ output.value = ClaimedSpeedScore(input.loadTime)
        /\ calculateSpeedScore(input.loadTime) = QuickCalculateSpeedScore(input.loadTime)
        /\ \A t2 \in LoadTimeInputs :
              input.loadTime <= t2 => output.value >= EngineSpeedScore(input.engine, t2)

\* a load time on a breakpoint
C14_Witness ==
    /\ input.fn = "calculateSpeedScore"
    /\ output.returned
    /\ input.loadTime = 7000
    /\ output.value = 40

\* C15: for a business category that is not a key of the base table the
\* projection is the one computed from retail's base range {1500, 4000}, and
\* for a category that is not a key of the vocabulary table the local-SEO
\* extractor reports the keywords of retail's vocabulary found on the page.
C15_UnknownCategoryIsRetail ==
    /\ (/\ input.fn = "calculateRevenueProjection"
        /\ output.returned
        /\ input.businessType \notin KnownTypes)
       =>
          LET r == ResultsOf(input.engine, input.outcome)
              m == IF input.engine = "full" THEN FullMultiplier(r, "retail")
                   ELSE QuickMultiplier(r)
          IN  output.value = [min |-> Round(1500 * m, 10), max |-> Round(4000 * m, 10)]
    /\ (/\ input.fn = "analyzeLocalSEO"
        /\ output.returned
        /\ input.businessType \notin VocabularyTypes)
       =>
          output.value.localKeywords
              = {"store", "shop", "location", "hours", "local"} \cap input.page.words

\* C16: the audited URL is the website string itself when it begins with
\* http:// or https://, and https:// followed by the website string
\* otherwise, in runFullAudit, runQuickAudit and the submit-audit handler alike.
C16_UrlDefaultsToHttps ==
    (input.fn = "normalizeUrl" /\ output.returned) =>
        output.value =
            IF StartsWith(input.website, <<"h", "t", "t", "p", ":", "/", "/">>)
               \/ StartsWith(input.website, <<"h", "t", "t", "p", "s", ":", "/", "/">>)
            THEN input.website
            ELSE <<"h", "t", "t", "p", "s", ":", "/", "/">> \o input.website

ClaimedSEOScoreTimes(k, i) ==
    LET flags == 25 * (IF i.missingTitle THEN 1 ELSE 0)
               + 15 * (IF i.titleTooShort \/ i.titleTooLong THEN 1 ELSE 0)
               + 20 * (IF i.missingMetaDescription THEN 1 ELSE 0)
               + 10 * (IF i.metaDescriptionTooShort \/ i.metaDescriptionTooLong THEN 1 ELSE 0)
               + 20 * (IF i.noH1 THEN 1 ELSE 0)
               + 15 * (IF i.multipleH1 THEN 1 ELSE 0)
        alt   == IF i.totalImages = 0 THEN 0
                 ELSE Min(20 * k, (20 * i.missingAltTags * k) \div i.totalImages)
    IN  Max(0, 100 * k - flags * k - alt)

NoSeoFlag(i) ==
    ~(\/ i.missingTitle \/ i.titleTooShort \/ i.titleTooLong
      \/ i.missingMetaDescription \/ i.metaDescriptionTooShort \/ i.metaDescriptionTooLong
      \/ i.noH1 \/ i.multipleH1)

\* C18: for every combination of flags and image counts with missingAltTags
\* <= totalImages, calculateSEOScore returns 100 minus the penalties of the
\* set flags minus min(20, 20 * missingAltTags / totalImages), floored at 0:
\* never below 0, never above 100, and 100 when nothing is wrong.
C18_SEOScoreFormula ==
    (input.fn = "calculateSEOScore" /\ output.returned) =>
        LET k == output.value.den
            score == output.value.num
        IN  /\ k = ImageDenominator(input.issues)
            /\ score = ClaimedSEOScoreTimes(k, input.issues)
            /\ score >= 0 /\ score <= 100 * k
            /\ (NoSeoFlag(input.issues) /\ input.issues.missingAltTags = 0) => score = 100 * k

\* one image of three lacks alt text: the score is 100 - 20/3
C18_Witness ==
    /\ input.fn = "calculateSEOScore"
    /\ output.returned
    /\ NoSeoFlag(input.issues)
    /\ input.issues.missingAltTags = 1 /\ input.issues.totalImages = 3
    /\ output.value = [num |-> 280, den |-> 3]

\* C19: without a provider verdict the mobile result is the basic analysis:
\* score 80 if the SEO score is above 70 and 60 otherwise (60 when the SEO
\* extractor failed with score 0), friendly exactly when the score is 80.
C19_BasicMobileFromSeoScore ==
    (/\ input.fn = "analyzeMobileReadiness"
     /\ output.returned
     /\ input.outcome \notin {"MOBILE_FRIENDLY", "NOT_MOBILE_FRIENDLY"})
    =>
        LET r == output.value
        IN  /\ r.score = (IF input.seoResults.score > 70 THEN 80 ELSE 60)
            /\ input.seoResults.err => r.score = 60
            /\ r.friendly <=> r.score = 80
            /\ r.kind = "basic"

\* no key, and the SEO extractor failed
C19_Witness ==
    /\ input.fn = "analyzeMobileReadiness"
    /\ output.returned
    /\ input.outcome = "no-key"
    /\ input.seoResults.err
    /\ output.value.score = 60 /\ ~output.value.friendly

\* the order in which the rules of each tier are evaluated (section 4.8)
RuleOrder ==
    [critical |-> <<"Extremely Slow Mobile Loading", "Phone Number Not Visible",
                    "Mobile Website Unusable">>,
     high     |-> <<"Missing SEO Basics", "Slow Mobile Loading", "Poor Local SEO Setup">>,
     medium   |-> <<"No Contact Form", "Missing Image Alt Tags">>]

PositionIn(order, title) == CHOOSE i \in DOMAIN order : order[i] = title

\* s is a subsequence of order without repetition
InRuleOrder(s, order) ==
    /\ \A i \in DOMAIN s : s[i] \in Range(order)
    /\ \A i, j \in DOMAIN s : i < j => PositionIn(order, s[i]) < PositionIn(order, s[j])

\* C20: each tier list of a run is a repetition-free subsequence of the
\* tier's rule order, so critical and high hold at most 3 issues and medium
\* at most 2.
C20_IssuesInRuleOrder ==
    /\ \A tier \in DOMAIN RuleOrder : InRuleOrder(results.issues[tier], RuleOrder[tier])
    /\ Len(results.issues.critical) <= 3
    /\ Len(results.issues.high) <= 3
    /\ Len(results.issues.medium) <= 2

\* a run in which every critical and every medium rule fired
C20_Witness ==
    /\ RunReturned
    /\ Len(results.issues.critical) = 3
    /\ Len(results.issues.medium) = 2

(***************************************************************************)
(* Properties of the queues, the retries and the lead record               *)
(***************************************************************************)
\* processAuditQueue / processEmailQueue of invocation i returns with this
\* step, having popped an item
ReturnsAfterPop(i, q) ==
    /\ held[i][q] # NoJob
    /\ cron[i][q] \notin ReturnValues
    /\ cron'[i][q] \in ReturnValues

\* C22: whenever processAuditQueue or processEmailQueue returns after it has
\* popped an item, it returns { processed: 1 } or the item is in the retry
\* queue of its queue.
C22_NoItemLost ==
    [][\A i \in Invocations, q \in QueueNames :
          ReturnsAfterPop(i, q) =>
              \/ cron'[i][q] = "processed"
              \/ \E k \in DOMAIN retry'[q] : Requeued(retry'[q][k]) = held[i][q]]_vars

\* C23: no job is pushed from a retry queue back to its main queue three
\* times or more.
C23_RetriesBounded ==
    \A job \in BagToSet(movedBack) : CopiesIn(job, movedBack) < 3

\* C24: a job is pushed from a retry queue back to its main queue at most as
\* often as it was put into the retry queue, also when two invocations of the
\* handler overlap.
C24_MovedBackAtMostOnce ==
    \A job \in BagToSet(movedBack) : CopiesIn(job, movedBack) <= CopiesIn(job, putInRetry)

\* C25: a lead record that holds emailSent, written by send-email for an
\* audit_completed job, and for which generate-report has stored a report,
\* also holds the reportUrl written by generate-report.
C25_LeadKeepsReportUrl ==
    \A l \in Leads :
        (lead[l].emailSent /\ \E r \in reportStore : r[1] = l) => lead[l].reportUrl

(***************************************************************************)
(* Properties of the browser handling                                      *)
(***************************************************************************)
RunEnded == run \in {"completed", "failed"}

\* C21: the page an extractor opened is closed when the extractor has
\* returned, whether it failed or not, and no launched browser is open once
\* processAuditBackground has ended.
C21_ResourcesReleased ==
    /\ \A c \in Categories : stage[c] = "returned" => ~pageOpen[c]
    /\ RunEnded => launched = {}

\* C26: the six extractors of one runFullAudit launch at most one browser,
\* and one call of cleanup leaves no launched browser open.
C26_OneBrowserPerEngine ==
    /\ Cardinality(launched) <= 1
    /\ cleanup(launched) = {}

(***************************************************************************)
(* Properties of the scheduled emails                                      *)
(***************************************************************************)
\* C27: no row of email_queue is sent by the transporter more than once.
C27_SentAtMostOnce == \A r \in Rows : handed[r] <= 1

\* C28: the status of a row changes only from 'pending' to 'sent' or from
\* 'pending' to 'failed', and a row becomes 'failed' only if the transporter
\* has not sent it.
C28_StatusReflectsSend ==
    [][\A r \in Rows :
          (emailQueue[r] # "absent" /\ emailQueue'[r] # emailQueue[r]) =>
              /\ emailQueue[r] = "pending"
              /\ emailQueue'[r] \in {"sent", "failed"}
              /\ emailQueue'[r] = "failed" => handed'[r] = 0]_vars

(***************************************************************************)
(* Properties of the performance and SEO results                           *)
(***************************************************************************)
\* the engine whose extractor a call runs
PerformanceEngine(fn) == IF fn = "analyzePerformance" THEN "full" ELSE "quick"

ScoreFollowsLoadTime(e, timing) == timing.score = EngineSpeedScore(e, timing.loadTime)

\* C29: in every performance result (measured locally, taken from the
\* page-speed provider, built from the default values, or the error fallback)
\* the score of the mobile and of the desktop entry is calculateSpeedScore of
\* the load time reported next to it.
C29_ScoreFollowsLoadTime ==
    (input.fn \in {"analyzePerformance", "checkPerformance"} /\ output.returned) =>
        /\ ScoreFollowsLoadTime(PerformanceEngine(input.fn), output.value.mobile)
        /\ ScoreFollowsLoadTime(PerformanceEngine(input.fn), output.value.desktop)

\* C30: in every SEO result built from a fetched page missingTitle implies
\* titleTooShort and missingMetaDescription implies metaDescriptionTooShort,
\* so the score is at most 60 without a title, at most 70 without a meta
\* description and at most 30 without both.
C30_MissingImpliesTooShort ==
    (input.fn = "analyzeSEO" /\ output.returned /\ output.value.kind = "ok") =>
        LET issues == output.value.issues
            score == output.value.score
        IN  /\ issues.missingTitle => issues.titleTooShort /\ score <= 60
            /\ issues.missingMetaDescription => issues.metaDescriptionTooShort /\ score <= 70
            /\ issues.missingTitle /\ issues.missingMetaDescription => score <= 30

\* a fetched page with neither title nor meta description, one h1, no image
C30_Witness ==
    /\ input.fn = "analyzeSEO"
    /\ output.returned
    /\ output.value.kind = "ok"
    /\ output.value.issues.missingTitle
    /\ output.value.issues.missingMetaDescription
    /\ output.value.score = 30

====
